---- MODULE Spec2Model ----
(***************************************************************************)
(* ConnectorClass (src/src/Connector/Connector.ts): one mutable host, the  *)
(* seven request methods built on fetch, and the socket pass-through.      *)
(*                                                                         *)
(* A request is followed through its promise chain:                        *)
(*   call (url and config built, fetch called)                             *)
(*     -> fetch settles -> then-callback -> body extraction settles        *)
(*     -> catch-callback -> the returned promise settles.                  *)
(* Strings are JavaScript strings; a URL is built with \o as the template  *)
(* literal builds it.                                                      *)
(***************************************************************************)
EXTENDS Naturals, Sequences, FiniteSets, TLC

VARIABLES host, lastSetHost, reqs, socket

vars == <<host, lastSetHost, reqs, socket>>

(***************************************************************************)
(* Bounds and input sets.                                                  *)
(***************************************************************************)
\* Number of request slots that may be in flight together (SpecConc).
MaxCalls == 2

Slots == 1..MaxCalls

\* The value of an argument that was not passed.
Undefined == "<undefined>"

\* lastSetHost before any setHost call.
NeverCalled == "<never>"

\* window.location.host of the page.
AmbientHost == "app.local"

HostArgs == {Undefined, "", "new.host"}


EmptyOptions == [k \in {} |-> ""]

CallerHeaders == ("Content-Type" :> "text/plain") @@ ("X-Token" :> "t")

FullOptions ==
    [method |-> "PUT", credentials |-> "omit", headers |-> CallerHeaders, body |-> "raw"]

\* The (path, options, prefix) of a call: both paths, an absent, an empty and
\* a given prefix; no options, a method alone, and every connector-managed key.
CallArgs ==
    { [path |-> "a", options |-> EmptyOptions, prefix |-> Undefined],
      [path |-> "users/7?x=1", options |-> FullOptions, prefix |-> ""],
      [path |-> "a", options |-> [method |-> "PUT"], prefix |-> "v2"],
      [path |-> "users/7?x=1", options |-> EmptyOptions, prefix |-> "v2"] }

\* Request bodies: a falsy value, a plain object, an object JSON.stringify
\* cannot serialize (a cycle).
BodyArgs == {"falsy", "object", "cyclic"}

(***************************************************************************)
(* Errors. HttpError and NetworkError come from ../errors, which is not    *)
(* part of the source at hand; they are value objects tagged by class.     *)
(***************************************************************************)
NoError == [kind |-> "none", message |-> "", status |-> 0, statusText |-> ""]

MkError(kind, message) ==
    [kind |-> kind, message |-> message, status |-> 0, statusText |-> ""]

HttpError(status, statusText) ==
    [kind |-> "HttpError", message |-> statusText, status |-> status,
     statusText |-> statusText]

NetworkError(message) == MkError("NetworkError", message)

GenericError(message) == MkError("Error", message)

\* What a transport call or a body extraction may reject with: an Error, a
\* TypeError, a SyntaxError, an HttpError, or no error object at all.
TransportErrors ==
    { MkError("Error", "boom"),
      MkError("TypeError", "Failed to fetch"),
      MkError("SyntaxError", "Unexpected token"),
      HttpError(502, "Bad Gateway"),
      MkError("undefined", "") }

(***************************************************************************)
(* Responses of the transport: ok is status in 200..299; the body is read  *)
(* by json(), text() or blob(), and the body stream may break while read.  *)
(***************************************************************************)
Statuses == {200, 204, 404}

StatusTextOf(s) ==
    CASE s = 200 -> "OK"
      [] s = 204 -> "No Content"
      [] s = 404 -> "Not Found"
      [] OTHER -> ""

ValidJson == "{\"id\":1}"

Malformed == "<html>"

Responses ==
    { [ok |-> (s >= 200 /\ s <= 299), status |-> s, statusText |-> StatusTextOf(s),
       body |-> b, stream |-> st] :
        s \in Statuses, b \in {ValidJson, Malformed}, st \in {"intact", "broken"} }

\* The responses the transport resolves with: a failed status, and each
\* successful status with a good body, a malformed body and a broken stream.
TransportResponses ==
    { r \in Responses :
        /\ ~r.ok => (r.body = Malformed /\ r.stream = "intact")
        /\ r.stream = "broken" => r.body = ValidJson }

NoResponse ==
    [ok |-> FALSE, status |-> 0, statusText |-> "", body |-> "", stream |-> "none"]

\* Values a promise resolves with.
NoValue == [type |-> "none", text |-> "", flag |-> FALSE]

JsonValue(text) == [type |-> "json", text |-> text, flag |-> FALSE]

TextValue(text) == [type |-> "text", text |-> text, flag |-> FALSE]

BlobValue(text) == [type |-> "blob", text |-> text, flag |-> FALSE]

BoolValue(b) == [type |-> "boolean", text |-> "", flag |-> b]

(***************************************************************************)
(* setHost and the URL template.                                           *)
(***************************************************************************)
\* Mutant: only an absent argument resets the host; an empty string is kept.
HostOrAmbientUndefinedOnly(h) == IF h = Undefined THEN AmbientHost ELSE h

\* host || window.location.host
HostOrAmbient(h) == IF h = Undefined \/ h = "" THEN AmbientHost ELSE h

\* prefix: string = 'api'
PrefixOrDefault(prefix) == IF prefix = Undefined THEN "api" ELSE prefix

\* `//${this.host}/${prefix ? `${prefix}/` : ''}${path}`
BuildUrl(h, prefix, path) ==
    "//" \o h \o "/" \o (IF prefix # "" THEN prefix \o "/" ELSE "") \o path

(***************************************************************************)
(* The configuration each method hands to fetch: {...options, fixed}.      *)
(***************************************************************************)
\* Object spread followed by own keys: a later key replaces an earlier one.
Spread(options, fixed) ==
    [k \in DOMAIN options \cup DOMAIN fixed |->
        IF k \in DOMAIN fixed THEN fixed[k] ELSE options[k]]

JsonHeaders == "Content-Type" :> "application/json"

\* body || {}
BodyOrEmpty(body) == IF body = "falsy" THEN "emptyObject" ELSE body

\* JSON.stringify: the JSON text, or a TypeError thrown on a cycle.
Stringify(v) ==
    CASE v = "emptyObject" -> [threw |-> FALSE, text |-> "{}", err |-> NoError]
      [] v = "object" -> [threw |-> FALSE, text |-> "{\"a\":1}", err |-> NoError]
      [] OTHER ->
            [threw |-> TRUE, text |-> "",
             err |-> MkError("TypeError", "Converting circular structure to JSON")]

FetchApiConfig(options) == Spread(options, [credentials |-> "include"])

PostApiConfig(text, options) ==
    Spread(options,
           [body |-> text, credentials |-> "include", headers |-> JsonHeaders,
            method |-> "POST"])

PatchApiConfig(text, options) ==
    Spread(options,
           [body |-> text, credentials |-> "include", headers |-> JsonHeaders,
            method |-> "PATCH"])

DeleteApiConfig(options) ==
    Spread(options,
           [credentials |-> "include", headers |-> JsonHeaders, method |-> "DELETE"])

\* Mutant: the spread comes last, so the caller's keys win.
GetApiConfigOptionsLast(options) == Spread([credentials |-> "include"], options)

GetApiConfig(options) == Spread(options, [credentials |-> "include"])

HeadApiConfig(options) ==
    Spread(options, [method |-> "HEAD", credentials |-> "include"])

DownloadApiConfig(options) == Spread(options, [credentials |-> "include"])

\* The verb fetch sends for a configuration: GET unless the configuration
\* names a method.
VerbOf(config) == IF "method" \in DOMAIN config THEN config["method"] ELSE "GET"

(***************************************************************************)
(* The then-callbacks: what each does with the response fetch resolved     *)
(* with. A callback throws, starts one body extraction, or returns.        *)
(***************************************************************************)
Throw(err) == [act |-> "throw", op |-> "", err |-> err, value |-> NoValue]

Extract(op) == [act |-> "extract", op |-> op, err |-> NoError, value |-> NoValue]

Return(value) == [act |-> "return", op |-> "", err |-> NoError, value |-> value]

\* Mutant: the body is parsed without looking at the status.
FetchApiThenParsesFirst(response) == Extract("json")

FetchApiThen(response) ==
    IF ~response.ok THEN Throw(HttpError(response.status, response.statusText))
    ELSE Extract("json")

PostApiThen(response) ==
    IF ~response.ok THEN Throw(HttpError(response.status, response.statusText))
    ELSE IF response.status = 204 THEN Extract("text")
    ELSE Extract("json")

\* Mutant: no special case for 204.
PatchApiThenAlwaysJson(response) ==
    IF ~response.ok THEN Throw(HttpError(response.status, response.statusText))
    ELSE Extract("json")

PatchApiThen(response) ==
    IF ~response.ok THEN Throw(HttpError(response.status, response.statusText))
    ELSE IF response.status = 204 THEN Extract("text")
    ELSE Extract("json")

DeleteApiThen(response) ==
    IF ~response.ok THEN Throw(HttpError(response.status, response.statusText))
    ELSE Extract("json")

GetApiThen(response) ==
    IF ~response.ok THEN Throw(HttpError(response.status, response.statusText))
    ELSE Extract("text")

\* Mutant: the boolean is the ok flag itself.
HeadApiThenNotInverted(response) ==
    IF ~response.ok THEN Return(BoolValue(FALSE))
    ELSE Return(BoolValue(TRUE))

HeadApiThen(response) ==
    IF ~response.ok THEN Return(BoolValue(TRUE))
    ELSE Return(BoolValue(FALSE))

DownloadApiThen(response) ==
    IF ~response.ok THEN Throw(HttpError(response.status, response.statusText))
    ELSE Extract("blob")

ThenCallback(method, response) ==
    CASE method = "fetchApi" -> FetchApiThen(response)
      [] method = "postApi" -> PostApiThen(response)
      [] method = "patchApi" -> PatchApiThen(response)
      [] method = "deleteApi" -> DeleteApiThen(response)
      [] method = "getApi" -> GetApiThen(response)
      [] method = "headApi" -> HeadApiThen(response)
      [] OTHER -> DownloadApiThen(response)

\* Mutant: the HttpError branch is missing.
CatchCallbackWrapsHttp(err) ==
    IF err.kind = "SyntaxError" THEN GenericError("fetchApi: bad JSON")
    ELSE IF err.kind = "undefined"
         THEN MkError("TypeError", "Cannot read properties of undefined")
    ELSE NetworkError(err.message)

\* Mutant: the underlying message is dropped.
CatchCallbackFixedMessage(err) ==
    IF err.kind = "SyntaxError" THEN GenericError("fetchApi: bad JSON")
    ELSE IF err.kind = "HttpError" THEN err
    ELSE IF err.kind = "undefined"
         THEN MkError("TypeError", "Cannot read properties of undefined")
    ELSE NetworkError("network error")

\* Mutant: the SyntaxError branch is missing.
CatchCallbackNoSyntax(err) ==
    IF err.kind = "HttpError" THEN err
    ELSE IF err.kind = "undefined"
         THEN MkError("TypeError", "Cannot read properties of undefined")
    ELSE NetworkError(err.message)

\* The catch-callback, the same in every method. Reading err.message of a
\* rejection that carries no error object throws a TypeError in the callback.
CatchCallback(err) ==
    IF err.kind = "SyntaxError" THEN GenericError("fetchApi: bad JSON")
    ELSE IF err.kind = "HttpError" THEN err
    ELSE IF err.kind = "undefined"
         THEN MkError("TypeError", "Cannot read properties of undefined")
    ELSE NetworkError(err.message)

\* response.json(), response.text(), response.blob().
BodyOp(op, response) ==
    IF response.stream = "broken"
    THEN [failed |-> TRUE, value |-> NoValue,
          err |-> MkError("TypeError", "body stream interrupted")]
    ELSE CASE op = "json" ->
                IF response.body = ValidJson
                THEN [failed |-> FALSE, value |-> JsonValue(response.body), err |-> NoError]
                ELSE [failed |-> TRUE, value |-> NoValue,
                      err |-> MkError("SyntaxError", "Unexpected token")]
           [] op = "text" ->
                [failed |-> FALSE, value |-> TextValue(response.body), err |-> NoError]
           [] OTHER ->
                [failed |-> FALSE, value |-> BlobValue(response.body), err |-> NoError]

(***************************************************************************)
(* State.                                                                  *)
(*   host         ConnectorClass.host                                      *)
(*   lastSetHost  the argument of the most recent setHost call (history)   *)
(*   reqs         per slot, the call made there and how far its promise    *)
(*                chain has run; a slot is free again once the call ended  *)
(*   socket       the last openSocketConnection: what io.connect and the   *)
(*                messager were given                                      *)
(***************************************************************************)
NoConfig == [unset |-> TRUE]

IdleReq ==
    [phase |-> "idle", method |-> "", path |-> "", prefix |-> "",
     options |-> EmptyOptions, hostAtCall |-> "", setHostAtCall |-> "",
     url |-> "", config |-> NoConfig, fetched |-> FALSE,
     transport |-> "none", response |-> NoResponse, transportErr |-> NoError,
     bodyOps |-> <<>>, bodyErr |-> NoError, value |-> NoValue, error |-> NoError]

NoSocket == [opened |-> FALSE, connectArg |-> "", messagerArg |-> "", setHostArg |-> ""]

Init ==
    /\ host = AmbientHost
    /\ lastSetHost = NeverCalled
    /\ reqs = [i \in Slots |-> IdleReq]
    /\ socket = NoSocket

InFlight(r) == r.phase \in {"fetching", "body"}

\* The record of a call that reached fetch(url, config).
Fetching(method, path, prefix, options, url, config) ==
    [IdleReq EXCEPT !.phase = "fetching", !.method = method, !.path = path,
                    !.prefix = prefix, !.options = options, !.hostAtCall = host,
                    !.setHostAtCall = lastSetHost,
                    !.url = url, !.config = config, !.fetched = TRUE,
                    !.transport = "pending"]

\* The record of a call that threw before it reached fetch.
Threw(method, path, prefix, options, url, err) ==
    [IdleReq EXCEPT !.phase = "threw", !.method = method, !.path = path,
                    !.prefix = prefix, !.options = options, !.hostAtCall = host,
                    !.setHostAtCall = lastSetHost,
                    !.url = url, !.error = err]

(***************************************************************************)
(* setHost, initConnect, openSocketConnection.                             *)
(***************************************************************************)
\* Mutant: requests in flight follow the host (a URL resolved against the
\* connector's host when it is used, not when the method is called).
SetHostRetargets(h) ==
    /\ host' = HostOrAmbient(h)
    /\ lastSetHost' = h
    /\ reqs' = [i \in Slots |->
                  IF InFlight(reqs[i])
                  THEN [reqs[i] EXCEPT !.url =
                          BuildUrl(HostOrAmbient(h), PrefixOrDefault(reqs[i].prefix),
                                   reqs[i].path)]
                  ELSE reqs[i]]
    /\ UNCHANGED socket

SetHost(h) ==
    /\ host' = HostOrAmbient(h)
    /\ lastSetHost' = h
    /\ UNCHANGED <<reqs, socket>>

InitConnect(h) == SetHost(h)

\* io.connect(host) hands back a connection to that host; the messager gets it.
OpenSocketConnection ==
    /\ socket' = [opened |-> TRUE, connectArg |-> host, messagerArg |-> host,
                  setHostArg |-> lastSetHost]
    /\ UNCHANGED <<host, lastSetHost, reqs>>

(***************************************************************************)
(* The request methods, up to the call of fetch.                           *)
(***************************************************************************)
FetchApi(i, path, options, prefix) ==
    /\ ~InFlight(reqs[i])
    /\ LET url == BuildUrl(host, PrefixOrDefault(prefix), path)
       IN reqs' = [reqs EXCEPT ![i] =
                     Fetching("fetchApi", path, prefix, options, url,
                              FetchApiConfig(options))]
    /\ UNCHANGED <<host, lastSetHost, socket>>

PostApi(i, path, body, options, prefix) ==
    /\ ~InFlight(reqs[i])
    /\ LET url == BuildUrl(host, PrefixOrDefault(prefix), path)
           json == Stringify(BodyOrEmpty(body))
       IN reqs' = [reqs EXCEPT ![i] =
                     IF json.threw
                     THEN Threw("postApi", path, prefix, options, url, json.err)
                     ELSE Fetching("postApi", path, prefix, options, url,
                                   PostApiConfig(json.text, options))]
    /\ UNCHANGED <<host, lastSetHost, socket>>

PatchApi(i, path, body, options, prefix) ==
    /\ ~InFlight(reqs[i])
    /\ LET url == BuildUrl(host, PrefixOrDefault(prefix), path)
           json == Stringify(BodyOrEmpty(body))
       IN reqs' = [reqs EXCEPT ![i] =
                     IF json.threw
                     THEN Threw("patchApi", path, prefix, options, url, json.err)
                     ELSE Fetching("patchApi", path, prefix, options, url,
                                   PatchApiConfig(json.text, options))]
    /\ UNCHANGED <<host, lastSetHost, socket>>

DeleteApi(i, path, options, prefix) ==
    /\ ~InFlight(reqs[i])
    /\ LET url == BuildUrl(host, PrefixOrDefault(prefix), path)
       IN reqs' = [reqs EXCEPT ![i] =
                     Fetching("deleteApi", path, prefix, options, url,
                              DeleteApiConfig(options))]
    /\ UNCHANGED <<host, lastSetHost, socket>>

GetApi(i, path, options, prefix) ==
    /\ ~InFlight(reqs[i])
    /\ LET url == BuildUrl(host, PrefixOrDefault(prefix), path)
       IN reqs' = [reqs EXCEPT ![i] =
                     Fetching("getApi", path, prefix, options, url,
                              GetApiConfig(options))]
    /\ UNCHANGED <<host, lastSetHost, socket>>

HeadApi(i, path, options, prefix) ==
    /\ ~InFlight(reqs[i])
    /\ LET url == BuildUrl(host, PrefixOrDefault(prefix), path)
       IN reqs' = [reqs EXCEPT ![i] =
                     Fetching("headApi", path, prefix, options, url,
                              HeadApiConfig(options))]
    /\ UNCHANGED <<host, lastSetHost, socket>>

DownloadApi(i, path, options, prefix) ==
    /\ ~InFlight(reqs[i])
    /\ LET url == BuildUrl(host, PrefixOrDefault(prefix), path)
       IN reqs' = [reqs EXCEPT ![i] =
                     Fetching("downloadApi", path, prefix, options, url,
                              DownloadApiConfig(options))]
    /\ UNCHANGED <<host, lastSetHost, socket>>

(***************************************************************************)
(* The promise chain of a call in flight.                                  *)
(***************************************************************************)
\* The returned promise rejects with what the catch-callback throws.
Rejected(r, err) == [r EXCEPT !.phase = "rejected", !.error = CatchCallback(err)]

\* fetch resolves with a response and the method's then-callback runs.
FetchResolves(i, response) ==
    /\ reqs[i].phase = "fetching"
    /\ LET r == [reqs[i] EXCEPT !.transport = "resolved", !.response = response]
           t == ThenCallback(r.method, response)
       IN reqs' = [reqs EXCEPT ![i] =
                     CASE t.act = "throw" -> Rejected(r, t.err)
                       [] t.act = "extract" ->
                            [r EXCEPT !.phase = "body",
                                      !.bodyOps = Append(r.bodyOps, t.op)]
                       [] OTHER -> [r EXCEPT !.phase = "resolved", !.value = t.value]]
    /\ UNCHANGED <<host, lastSetHost, socket>>

\* fetch rejects and the catch-callback runs.
FetchRejects(i, err) ==
    /\ reqs[i].phase = "fetching"
    /\ reqs' = [reqs EXCEPT ![i] =
                  Rejected([reqs[i] EXCEPT !.transport = "rejected",
                                           !.transportErr = err], err)]
    /\ UNCHANGED <<host, lastSetHost, socket>>

\* The body extraction the then-callback started settles.
BodySettles(i) ==
    /\ reqs[i].phase = "body"
    /\ LET r == reqs[i]
           b == BodyOp(r.bodyOps[Len(r.bodyOps)], r.response)
       IN reqs' = [reqs EXCEPT ![i] =
                     IF b.failed THEN Rejected([r EXCEPT !.bodyErr = b.err], b.err)
                     ELSE [r EXCEPT !.phase = "resolved", !.value = b.value]]
    /\ UNCHANGED <<host, lastSetHost, socket>>

(***************************************************************************)
(* Specifications.                                                         *)
(*   Spec      one call at a time, every method and every input, with      *)
(*             setHost at any point of the call                            *)
(*   SpecConc  MaxCalls calls in flight together, interleaved with setHost *)
(***************************************************************************)
Settle(i) ==
    \/ \E response \in TransportResponses : FetchResolves(i, response)
    \/ \E err \in TransportErrors : FetchRejects(i, err)
    \/ BodySettles(i)

Next ==
    \/ \E h \in HostArgs : SetHost(h)
    \/ \E h \in HostArgs : InitConnect(h)
    \/ OpenSocketConnection
    \/ \E a \in CallArgs :
          \/ FetchApi(1, a.path, a.options, a.prefix)
          \/ DeleteApi(1, a.path, a.options, a.prefix)
          \/ GetApi(1, a.path, a.options, a.prefix)
          \/ HeadApi(1, a.path, a.options, a.prefix)
          \/ DownloadApi(1, a.path, a.options, a.prefix)
          \/ \E body \in BodyArgs :
                \/ PostApi(1, a.path, body, a.options, a.prefix)
                \/ PatchApi(1, a.path, body, a.options, a.prefix)
    \/ Settle(1)

Spec == Init /\ [][Next]_vars

ConcHostArgs == {Undefined, "new.host"}

ConcResponses == {r \in Responses : r.stream = "intact" /\ r.body = ValidJson}

NextConc ==
    \/ \E h \in ConcHostArgs : SetHost(h)
    \/ \E i \in Slots :
          \/ GetApi(i, "a", EmptyOptions, Undefined)
          \/ HeadApi(i, "a", EmptyOptions, "")
          \/ PostApi(i, "a", "object", EmptyOptions, Undefined)
          \/ \E response \in ConcResponses : FetchResolves(i, response)
          \/ FetchRejects(i, MkError("Error", "boom"))
          \/ BodySettles(i)

SpecConc == Init /\ [][NextConc]_vars

(***************************************************************************)
(* Properties.                                                             *)
(***************************************************************************)
BodyReturning ==
    {"fetchApi", "postApi", "patchApi", "deleteApi", "getApi", "downloadApi"}

\* The calls made so far, whatever their state.
Calls == {reqs[i] : i \in {j \in Slots : reqs[j].phase # "idle"}}

\* C1: a body-returning method whose transport call resolved with a response
\* that is not ok rejects with an HttpError carrying that response's status and
\* statusText, and no body extraction is invoked on the response.
C1_HttpErrorBeforeBody ==
    \A r \in Calls :
        (r.method \in BodyReturning /\ r.transport = "resolved" /\ ~r.response.ok)
        => /\ r.phase = "rejected"
           /\ r.error.kind = "HttpError"
           /\ r.error.status = r.response.status
           /\ r.error.statusText = r.response.statusText
           /\ r.bodyOps = <<>>

\* A 404 whose body would not have parsed: fetchApi or downloadApi rejected
\* with HttpError(404, "Not Found").
C1_Witness ==
    \E r \in Calls :
        /\ r.method \in {"fetchApi", "downloadApi"}
        /\ r.transport = "resolved"
        /\ r.response.status = 404
        /\ r.response.body = Malformed
        /\ r.phase = "rejected"
        /\ r.error.status = 404
        /\ r.error.statusText = "Not Found"

Taxonomy(err) ==
    \/ err.kind = "NetworkError"
    \/ err.kind = "HttpError"
    \/ (err.kind = "Error" /\ err.message = "fetchApi: bad JSON")

\* C2: a request method fails only by rejecting its promise, with a
\* NetworkError, an HttpError or the Error "fetchApi: bad JSON"; no call throws
\* before it returns a promise.
C2_FailsOnlyByTaxonomyRejection ==
    \A r \in Calls :
        /\ r.phase # "threw"
        /\ r.phase = "rejected" => Taxonomy(r.error)

\* C3 as claimed: once the transport call resolved with a response, the
\* outcome is never a NetworkError.
C3_NoNetworkErrorAfterResponse ==
    \A r \in Calls : r.transport = "resolved" => r.error.kind # "NetworkError"

\* C3 as amended: a NetworkError comes from a rejected transport call, or from
\* a body extraction on an ok response that rejected with an error that is
\* neither a SyntaxError nor an HttpError, whose message it carries; a response
\* whose body extraction did not reject that way never gives a NetworkError,
\* whatever its status.
C3_NetworkErrorOrigins ==
    \A r \in Calls :
        r.error.kind = "NetworkError"
        => \/ r.transport = "rejected"
           \/ /\ r.transport = "resolved"
              /\ r.response.ok
              /\ Len(r.bodyOps) = 1
              /\ r.bodyErr.kind \notin {"none", "SyntaxError", "HttpError"}
              /\ r.error.message = r.bodyErr.message

\* getApi on a 200 whose body stream broke: a NetworkError after a response.
C3_Witness ==
    \E r \in Calls :
        /\ r.method = "getApi"
        /\ r.transport = "resolved"
        /\ r.response.status = 200
        /\ r.bodyOps = <<"text">>
        /\ r.bodyErr.kind = "TypeError"
        /\ r.error.kind = "NetworkError"
        /\ r.error.message = r.bodyErr.message

\* C4: when the transport call rejects with an error that is neither a
\* SyntaxError nor an HttpError, the call rejects with a NetworkError carrying
\* that error's message, and no body extraction is invoked.
C4_TransportRejectionIsNetworkError ==
    \A r \in Calls :
        (r.transport = "rejected"
            /\ r.transportErr.kind \notin {"SyntaxError", "HttpError", "undefined"})
        => /\ r.phase = "rejected"
           /\ r.error.kind = "NetworkError"
           /\ r.error.message = r.transportErr.message
           /\ r.bodyOps = <<>>

\* headApi whose fetch rejected with Error("boom"): NetworkError("boom").
C4_Witness ==
    \E r \in Calls :
        /\ r.method = "headApi"
        /\ r.transport = "rejected"
        /\ r.transportErr.kind = "Error"
        /\ r.transportErr.message = "boom"
        /\ r.error.kind = "NetworkError"
        /\ r.error.message = "boom"

\* C5: fetchApi, postApi, patchApi and deleteApi, on an ok response (not 204
\* for postApi and patchApi) whose json() rejects with a SyntaxError, reject
\* with the Error "fetchApi: bad JSON".
C5_BadJson ==
    \A r \in Calls :
        (/\ r.method \in {"fetchApi", "postApi", "patchApi", "deleteApi"}
         /\ r.transport = "resolved"
         /\ r.response.ok
         /\ (r.method \in {"postApi", "patchApi"} => r.response.status # 204)
         /\ r.bodyErr.kind = "SyntaxError")
        => /\ r.phase = "rejected"
           /\ r.error.kind = "Error"
           /\ r.error.message = "fetchApi: bad JSON"

\* deleteApi and postApi on a 200 with a malformed body.
C5_Witness ==
    \E r \in Calls :
        /\ r.method \in {"deleteApi", "postApi"}
        /\ r.response.status = 200
        /\ r.response.body = Malformed
        /\ r.bodyOps = <<"json">>
        /\ r.bodyErr.kind = "SyntaxError"
        /\ r.phase = "rejected"

\* C6: headApi, once the transport call resolved, resolves with the negation of
\* the response's ok flag, with no HttpError and no body extraction; it rejects
\* only when the transport call rejected.
C6_HeadInvertedBoolean ==
    \A r \in Calls :
        r.method = "headApi"
        => /\ r.transport = "resolved"
              => /\ r.phase = "resolved"
                 /\ r.value.type = "boolean"
                 /\ r.value.flag = ~r.response.ok
                 /\ r.error = NoError
                 /\ r.bodyOps = <<>>
           /\ r.phase = "rejected" => r.transport = "rejected"

\* headApi on a 404 resolved with true.
C6_Witness ==
    \E r \in Calls :
        /\ r.method = "headApi"
        /\ r.response.status = 404
        /\ r.phase = "resolved"
        /\ r.value.flag = TRUE

\* The part of a URL after "//host/", for the arguments the calls are made with.
UrlTails ==
    {"a", "api/a", "v2/a", "users/7?x=1", "api/users/7?x=1", "v2/users/7?x=1"}

UrlOnHost(url, h) == \E t \in UrlTails : url = "//" \o h \o "/" \o t

\* C7: the URL a call hands to fetch is on the host current when the method
\* is invoked; no later step changes the URL of a call, and a step that
\* changes the host (a setHost) leaves every call, in flight or ended, as it was.
C7_InFlightIsolation ==
    [][\A i \in Slots :
          /\ (reqs'[i].phase = "fetching" /\ reqs[i].phase # "fetching")
                => UrlOnHost(reqs'[i].url, host)
          /\ (InFlight(reqs[i]) /\ reqs'[i].phase # "idle")
                => reqs'[i].url = reqs[i].url
          /\ host' # host => reqs'[i] = reqs[i]]_vars

\* Slot 1 was called on the ambient host and is still in flight after
\* setHost("new.host"); slot 2, called after it, is on the new host.
C7_Witness ==
    /\ host = "new.host"
    /\ reqs[1].phase = "body"
    /\ reqs[1].hostAtCall = AmbientHost
    /\ UrlOnHost(reqs[1].url, AmbientHost)
    /\ reqs[2].phase = "fetching"
    /\ UrlOnHost(reqs[2].url, "new.host")

OwnVerb(method) ==
    CASE method = "postApi" -> "POST"
      [] method = "patchApi" -> "PATCH"
      [] method = "deleteApi" -> "DELETE"
      [] method = "headApi" -> "HEAD"
      [] OTHER -> "GET"

ManagedFields(r) ==
    /\ r.config["credentials"] = "include"
    /\ r.method \in {"postApi", "patchApi", "deleteApi"}
          => r.config["headers"]["Content-Type"] = "application/json"

\* C8 as claimed: credentials is 'include'; the verb is the method's own for
\* every method but fetchApi, whatever options says; Content-Type is
\* application/json for postApi, patchApi and deleteApi.
C8_ManagedFieldsAllMethods ==
    \A r \in Calls :
        r.fetched
        => /\ ManagedFields(r)
           /\ r.method # "fetchApi" => VerbOf(r.config) = OwnVerb(r.method)

\* C8 as amended: credentials and Content-Type as claimed; the verb is the
\* method's own for postApi, patchApi, deleteApi and headApi; fetchApi, getApi
\* and downloadApi set no method, so the verb is the one options names, and GET
\* when options names none.
C8_ManagedFields ==
    \A r \in Calls :
        r.fetched
        => /\ ManagedFields(r)
           /\ r.method \in {"postApi", "patchApi", "deleteApi", "headApi"}
                 => VerbOf(r.config) = OwnVerb(r.method)
           /\ r.method \in {"fetchApi", "getApi", "downloadApi"}
                 => VerbOf(r.config) =
                       IF "method" \in DOMAIN r.options THEN r.options["method"]
                       ELSE "GET"

\* getApi called with options {method: 'PUT', credentials: 'omit', ...}: the
\* configuration says PUT and include.
C8_Witness ==
    \E r \in Calls :
        /\ r.fetched
        /\ r.method = "getApi"
        /\ r.options = FullOptions
        /\ r.config["method"] = "PUT"
        /\ r.config["credentials"] = "include"

\* The host the claim expects after a setHost history ending in arg.
ExpectedHost(arg) ==
    IF arg \in {NeverCalled, Undefined, ""} THEN AmbientHost ELSE arg

ExpectedUrl(h, prefix, path) ==
    IF prefix = "" THEN "//" \o h \o "/" \o path
    ELSE "//" \o h \o "/" \o prefix \o "/" \o path

\* C9: the URL passed to fetch is //h/prefix/path, or //h/path for an empty
\* prefix, where h is the argument of the most recent setHost when that is a
\* non-empty string and the ambient host otherwise; openSocketConnection
\* passes the same h to io.connect.
C9_UrlAndSocketHost ==
    /\ \A r \in Calls :
          r.fetched
          => r.url = ExpectedUrl(ExpectedHost(r.setHostAtCall),
                                 IF r.prefix = Undefined THEN "api" ELSE r.prefix,
                                 r.path)
    /\ socket.opened => socket.connectArg = ExpectedHost(socket.setHostArg)

\* A call with an empty prefix after setHost("new.host"), and a socket opened
\* after setHost("").
C9_Witness ==
    /\ \E r \in Calls :
          /\ r.fetched
          /\ r.setHostAtCall = "new.host"
          /\ r.prefix = ""
          /\ r.url = "//new.host/users/7?x=1"
    /\ socket.opened
    /\ socket.setHostArg = ""
    /\ socket.connectArg = AmbientHost

\* C10: postApi and patchApi on an ok response invoke text() alone and resolve
\* with its result when the status is 204, and json() alone, resolving with its
\* result, for any other ok status; a successful call made one extraction.
C10_NoContentIsText ==
    \A r \in Calls :
        (r.method \in {"postApi", "patchApi"} /\ r.transport = "resolved" /\ r.response.ok)
        => /\ r.response.status = 204
              => /\ r.bodyOps = <<"text">>
                 /\ r.phase = "resolved" => r.value = TextValue(r.response.body)
           /\ r.response.status # 204
              => /\ r.bodyOps = <<"json">>
                 /\ r.phase = "resolved" => r.value = JsonValue(r.response.body)

\* patchApi on a 204 whose body is not JSON resolved with the raw text.
C10_Witness ==
    \E r \in Calls :
        /\ r.method = "patchApi"
        /\ r.response.status = 204
        /\ r.response.body = Malformed
        /\ r.phase = "resolved"
        /\ r.value.type = "text"
        /\ r.value.text = Malformed

====
